---- MODULE Spec2Model ----
(***************************************************************************)
(* A model of InsightFacade (src/unnamed/part_001): the dataset store      *)
(* operations addDataset / removeDataset / listDatasets and the query      *)
(* pipeline performQuery -> findCourses -> filterCourses -> selectColumns  *)
(* -> compareResults.                                                      *)
(*                                                                         *)
(* JavaScript strings are sequences of one-character strings, so that      *)
(* includes, split, join, charCodeAt and RegExp are computed, not assumed. *)
(* JSON values are tagged with what `typeof` / `instanceof Array` report.  *)
(***************************************************************************)
EXTENDS Integers, Sequences, FiniteSets, TLC

VARIABLES
    datasets,   \* this.datasets: the entries of the Datasets store, in insertion order
    pending,    \* addDataset calls whose asynchronous ingestion has not settled yet
    last,       \* the most recently settled promise: operation, arguments, outcome
    addedKind,  \* history: the kind argument of the call that installed each stored id
    addedFrom,  \* history: the archive of the call that installed each stored id
    sched       \* the run of Scheduler.schedule: its arguments, locals and position

vars == <<datasets, pending, last, addedKind, addedFrom, sched>>

----------------------------------------------------------------------------
(* Bounds of the model.                                                    *)

MaxPending == 2     \* addDataset calls in flight at once
MaxOps == 2         \* AND, OR and NOT nodes in the filter trees drawn in SpecFilter
MaxRows == 2        \* records of the datasets drawn in SpecFilter
MaxStrLen == 2      \* length of the stored strings drawn in SpecIS
MaxPatLen == 3      \* length of the IS values drawn in SpecIS
MaxNum == 2         \* stored numbers and comparison values are 0..MaxNum
MaxSortRows == 3    \* records of the datasets drawn in SpecQuery
MaxOver == 2        \* the datasets drawn in SpecCap have up to MaxResults + MaxOver records
MaxRooms == 2       \* entries of the list of rooms passed to schedule, and distinct rooms
MaxSections == 2    \* entries of the list of sections passed to schedule, and distinct sections
MaxScore == 2       \* the scores of a time table are 0..MaxScore
MaxSlots == 1       \* time slots of a time table

----------------------------------------------------------------------------
(* Strings.                                                                *)

dept == <<"d", "e", "p", "t">>
avg == <<"a", "v", "g">>
seats == <<"s", "e", "a", "t", "s">>

AND == <<"A", "N", "D">>
OR == <<"O", "R">>
NOT == <<"N", "O", "T">>
IS == <<"I", "S">>
EQ == <<"E", "Q">>
LT == <<"L", "T">>
GT == <<"G", "T">>

WHERE == <<"W", "H", "E", "R", "E">>
OPTIONS == <<"O", "P", "T", "I", "O", "N", "S">>
COLUMNS == <<"C", "O", "L", "U", "M", "N", "S">>
ORDER == <<"O", "R", "D", "E", "R">>

\* String.prototype.includes for a one-character needle
Includes(s, c) == \E i \in 1..Len(s) : s[i] = c

\* the position of the first c in s, or 0
RECURSIVE IndexOf(_, _, _)
IndexOf(s, c, from) ==
    IF from > Len(s) THEN 0
    ELSE IF s[from] = c THEN from
    ELSE IndexOf(s, c, from + 1)

\* String.prototype.split for a one-character separator: a sequence of strings
RECURSIVE Split(_, _)
Split(s, c) ==
    LET i == IndexOf(s, c, 1) IN
    IF i = 0 THEN <<s>>
    ELSE <<SubSeq(s, 1, i - 1)>> \o Split(SubSeq(s, i + 1, Len(s)), c)

\* Array.prototype.join
RECURSIVE Join(_, _)
Join(parts, sep) ==
    IF Len(parts) = 0 THEN <<>>
    ELSE IF Len(parts) = 1 THEN parts[1]
    ELSE parts[1] \o sep \o Join(Tail(parts), sep)

----------------------------------------------------------------------------
(* JSON values, tagged by typeof (and Array for instanceof Array).         *)

Num(n) == [t |-> "number", v |-> n]
Str(s) == [t |-> "string", v |-> s]
Arr(s) == [t |-> "array", v |-> s]
Obj(f) == [t |-> "object", v |-> f]

EmptyObj == Obj(<<>>)

TypeOf(j) == IF j.t = "array" THEN "object" ELSE j.t

\* Object.keys, for the values the model draws as filter nodes
KeysOf(j) ==
    IF j.t = "object" THEN DOMAIN j.v
    ELSE IF j.t \in {"array", "string"} THEN 1..Len(j.v)
    ELSE {}

\* a one-key object
O1(k, x) == Obj((k :> x))
\* a two-key object
O2(k1, x1, k2, x2) == Obj((k1 :> x1) @@ (k2 :> x2))

----------------------------------------------------------------------------
(* Errors: the class thrown and its message.                               *)

InsightError(m) == [class |-> "InsightError", message |-> m]
NotFoundErr(m) == [class |-> "NotFoundError", message |-> m]
ResultTooLargeError == [class |-> "ResultTooLargeError", message |-> ""]
NoError == [class |-> "", message |-> ""]

----------------------------------------------------------------------------
(* The Datasets store (src/model/Datasets, used by InsightFacade): an      *)
(* insertion-ordered map from id to the dataset's records.                 *)

Courses == "courses"
Rooms == "rooms"
Kinds == {Courses, Rooms}

containsDataset(ds, id) == \E i \in 1..Len(ds) : ds[i].id = id

getIds(ds) == [i \in 1..Len(ds) |-> ds[i].id]

getDataset(ds, id) == (CHOOSE e \in {ds[i] : i \in 1..Len(ds)} : e.id = id).data

\* add(id, records): fails if id is already present, else appends the entry
Datasets_addDataset(ds, id, data) ==
    IF containsDataset(ds, id)
    THEN [ok |-> FALSE, err |-> InsightError("Dataset already exists"), ds |-> ds]
    ELSE [ok |-> TRUE, err |-> NoError, ds |-> Append(ds, [id |-> id, data |-> data])]

\* remove(id): fails NotFoundError if absent, else deletes the entry
Datasets_removeDataset(ds, id) ==
    IF ~containsDataset(ds, id)
    THEN [ok |-> FALSE, err |-> NotFoundErr("Dataset not found"), ds |-> ds]
    ELSE [ok |-> TRUE, err |-> NoError,
          ds |-> SelectSeq(ds, LAMBDA e : e.id # id)]

----------------------------------------------------------------------------
(* Ingestion (JSZip.loadAsync, DataUtils.extractZip, DataUtils.convertData) *)

Subject == <<"S", "u", "b", "j", "e", "c", "t">>
Avg == <<"A", "v", "g">>

\* a record of a courses dataset
Rec(d, a) == (dept :> Str(d)) @@ (avg :> Num(a))

\* a raw result of a course file, as convertData accepts it
Raw(d, a) == Obj((Subject :> Str(d)) @@ (Avg :> Num(a)))
\* a raw result that lacks a field: convertData throws on it
RawBad == Obj((Subject :> Str(<<"a">>)))

convertOk(raw) == raw.t = "object" /\ {Subject, Avg} \subseteq DOMAIN raw.v

convertData(raw) == (dept :> raw.v[Subject]) @@ (avg :> raw.v[Avg])

\* the archives addDataset is called with: loadable says whether the content
\* is a zip at all; files is what extractZip returns, one list per course file
BadZip == [loadable |-> FALSE, files |-> <<>>]
EmptyZip == [loadable |-> TRUE, files |-> <<>>]
InvalidZip == [loadable |-> TRUE, files |-> << <<Raw(<<"a">>, 1), RawBad>> >>]
OneZip == [loadable |-> TRUE, files |-> << <<Raw(<<"a">>, 1)>> >>]
MixedZip == [loadable |-> TRUE,
             files |-> << <<Raw(<<"a">>, 1), Raw(<<"b">>, 2)>>,
                          <<RawBad, Raw(<<"b">>, 0)>>,
                          <<Raw(<<"a", "b">>, 0)>> >>]

Contents == {BadZip, EmptyZip, InvalidZip, OneZip, MixedZip}

\* lines 38-47: a course file with a result that does not convert is skipped whole
RECURSIVE ingest(_)
ingest(courseLists) ==
    IF Len(courseLists) = 0 THEN <<>>
    ELSE LET courseList == Head(courseLists)
             temp == [i \in 1..Len(courseList) |-> convertData(courseList[i])]
         IN  IF \A i \in 1..Len(courseList) : convertOk(courseList[i])
             THEN temp \o ingest(Tail(courseLists))
             ELSE ingest(Tail(courseLists))

----------------------------------------------------------------------------
(* Dataset ids.                                                            *)

isIdValid(id) ==
    IF Includes(id, "_") THEN FALSE
    ELSE \E i \in 1..Len(id) : id[i] # " "

\* the ids the operations are called with
Ids == { <<>>, <<" ">>, <<" ", " ">>, <<"\t">>, <<"c", "_", "r">>, <<"c">>, <<"r">> }

----------------------------------------------------------------------------
(* The scheduler is a separate object: while the facade is exercised no    *)
(* schedule is running.                                                    *)

NotScheduling == [pc |-> "idle"]

----------------------------------------------------------------------------
(* Settled promises.                                                       *)

\* status is "pending" (addDataset has returned a promise that has not
\* settled), "resolved" or "rejected"; before is the store when the operation ran
Settled(op, id, arg, status, err, value, before) ==
    [op |-> op, id |-> id, arg |-> arg, status |-> status, err |-> err,
     value |-> value, before |-> before]

Resolve(op, id, arg, value, before) ==
    Settled(op, id, arg, "resolved", NoError, value, before)
Reject(op, id, arg, err, before) ==
    Settled(op, id, arg, "rejected", err, <<>>, before)

\* the calls in flight: how many addDataset(id, _, kind) have returned a promise
\* that has not settled
Calls == Ids \X Kinds
InFlight == LET n[S \in SUBSET Calls] ==
                    IF S = {} THEN 0
                    ELSE LET c == CHOOSE c \in S : TRUE IN pending[c] + n[S \ {c}]
            IN  n[Calls]

StoredIds == {datasets[i].id : i \in 1..Len(datasets)}

----------------------------------------------------------------------------
(* addDataset.                                                             *)

\* a faulty addDatasetCheck: the duplicate test is missing
addDatasetCheckNoDuplicateTest(ds, id, kind) ==
    IF ~isIdValid(id) THEN InsightError("Field id format not valid")
    ELSE IF kind # Courses THEN InsightError("Invalid or not implemented dataset kind")
    ELSE NoError

\* lines 22-28: the synchronous checks; NoError when the call goes on to ingestion
addDatasetCheck(ds, id, kind) ==
    IF ~isIdValid(id) THEN InsightError("Field id format not valid")
    ELSE IF containsDataset(ds, id) THEN InsightError("Cannot add with duplicated id")
    ELSE IF kind # Courses THEN InsightError("Invalid or not implemented dataset kind")
    ELSE NoError

\* a faulty addDatasetThen: a dataset that is already stored under id is
\* replaced by the new records
addDatasetThenReplaces(ds, id, content) ==
    IF ~content.loadable
    THEN [ok |-> FALSE, err |-> InsightError("Corrupted zip"), ds |-> ds]
    ELSE LET dataset == ingest(content.files) IN
         IF Len(dataset) = 0
         THEN [ok |-> FALSE, ds |-> ds,
               err |-> InsightError("The zip must contain at least one course")]
         ELSE [ok |-> TRUE, err |-> NoError,
               ds |-> Append(SelectSeq(ds, LAMBDA e : e.id # id),
                             [id |-> id, data |-> dataset])]

\* a faulty addDatasetThen: the records are put in the store before they are
\* found to be none
addDatasetThenInstallsFirst(ds, id, content) ==
    IF ~content.loadable
    THEN [ok |-> FALSE, err |-> InsightError("Corrupted zip"), ds |-> ds]
    ELSE LET dataset == ingest(content.files)
             r == Datasets_addDataset(ds, id, dataset)
         IN  IF ~r.ok
             THEN [ok |-> FALSE, err |-> InsightError(r.err.message), ds |-> ds]
             ELSE IF Len(dataset) = 0
             THEN [ok |-> FALSE, ds |-> r.ds,
                   err |-> InsightError("The zip must contain at least one course")]
             ELSE r

\* lines 33-54: the promise chain, run when the archive has been read
addDatasetThen(ds, id, content) ==
    IF ~content.loadable
    THEN [ok |-> FALSE, err |-> InsightError("Corrupted zip"), ds |-> ds]
    ELSE LET dataset == ingest(content.files) IN
         IF Len(dataset) = 0
         THEN [ok |-> FALSE, ds |-> ds,
               err |-> InsightError("The zip must contain at least one course")]
         ELSE LET r == Datasets_addDataset(ds, id, dataset) IN
              IF r.ok THEN r
              ELSE [ok |-> FALSE, err |-> InsightError(r.err.message), ds |-> ds]

\* addDataset up to the point where it returns its promise
AddDatasetCall(id, kind) ==
    LET e == addDatasetCheck(datasets, id, kind) IN
    IF e # NoError
    THEN /\ last' = Reject("addCall", id, kind, e, datasets)
         /\ UNCHANGED <<datasets, pending, addedKind, addedFrom, sched>>
    ELSE /\ InFlight < MaxPending
         /\ pending' = [pending EXCEPT ![<<id, kind>>] = @ + 1]
         /\ last' = Settled("addCall", id, kind, "pending", NoError, <<>>, datasets)
         /\ UNCHANGED <<datasets, addedKind, addedFrom, sched>>

\* the callbacks of one pending addDataset: its promise settles. The archive is
\* an argument of the call, but nothing reads it before the chain runs, so it
\* is drawn here.
AddDatasetSettle(id, kind, content) ==
    /\ pending[<<id, kind>>] > 0
    /\ UNCHANGED sched
    /\ LET r == addDatasetThen(datasets, id, content)
       IN  /\ datasets' = r.ds
           /\ pending' = [pending EXCEPT ![<<id, kind>>] = @ - 1]
           /\ IF r.ok
              THEN /\ last' = Resolve("addThen", id, content, getIds(r.ds), datasets)
                   /\ addedKind' = (id :> kind) @@ addedKind
                   /\ addedFrom' = (id :> content) @@ addedFrom
              ELSE /\ last' = Reject("addThen", id, content, r.err, datasets)
                   /\ UNCHANGED <<addedKind, addedFrom>>

----------------------------------------------------------------------------
(* removeDataset.                                                          *)

\* a faulty removeDataset: it resolves without deleting from the store
removeDatasetKeeps(ds, id) ==
    IF ~isIdValid(id)
    THEN [ok |-> FALSE, err |-> InsightError("Id format not right"), ds |-> ds]
    ELSE [ok |-> containsDataset(ds, id), err |-> NotFoundErr("Dataset not found"), ds |-> ds]

\* lines 58-71
removeDataset(ds, id) ==
    IF ~isIdValid(id)
    THEN [ok |-> FALSE, err |-> InsightError("Id format not right"), ds |-> ds]
    ELSE Datasets_removeDataset(ds, id)

RemoveDataset(id) ==
    LET r == removeDataset(datasets, id) IN
    /\ datasets' = r.ds
    /\ IF r.ok
       THEN /\ last' = Resolve("remove", id, <<>>, id, datasets)
            /\ addedKind' = [i \in (DOMAIN addedKind) \ {id} |-> addedKind[i]]
            /\ addedFrom' = [i \in (DOMAIN addedFrom) \ {id} |-> addedFrom[i]]
       ELSE /\ last' = Reject("remove", id, <<>>, r.err, datasets)
            /\ UNCHANGED <<addedKind, addedFrom>>
    /\ UNCHANGED <<pending, sched>>

----------------------------------------------------------------------------
(* listDatasets.                                                           *)

\* a faulty listDatasets: numRows is the last index, not the length
listDatasetsLastIndex(ds) ==
    LET ids == getIds(ds) IN
    [i \in 1..Len(ids) |->
        [id |-> ids[i],
         kind |-> IF dept \in DOMAIN getDataset(ds, ids[i])[1] THEN Courses ELSE Rooms,
         numRows |-> Len(getDataset(ds, ids[i])) - 1]]

\* lines 76-92
listDatasets(ds) ==
    LET ids == getIds(ds) IN
    [i \in 1..Len(ids) |->
        [id |-> ids[i],
         kind |-> IF dept \in DOMAIN getDataset(ds, ids[i])[1] THEN Courses ELSE Rooms,
         numRows |-> Len(getDataset(ds, ids[i]))]]

ListDatasets ==
    /\ last' = Resolve("list", <<>>, <<>>, listDatasets(datasets), datasets)
    /\ UNCHANGED <<datasets, pending, addedKind, addedFrom, sched>>

----------------------------------------------------------------------------
(* SetUtils (src/SetUtils, used by findCourses and filterCourses).         *)

SetUtils_union(subSets) == UNION {subSets[i] : i \in 1..Len(subSets)}

SetUtils_intersecion(subSets) ==
    {x \in subSets[1] : \A i \in 1..Len(subSets) : x \in subSets[i]}

SetUtils_complementary(set, all) == all \ set

\* the predicate is given as a function on the set
SetUtils_setFilter(set, pred) == {x \in set : pred[x]}

----------------------------------------------------------------------------
(* filterCourses: one comparison against every record of the dataset.      *)
(* Indices are the JavaScript ones, 0..n-1; dataset[i] is data[i + 1].     *)

Thrown(e) == [ok |-> FALSE, err |-> e, set |-> {}]
Found(set) == [ok |-> TRUE, err |-> NoError, set |-> set]

\* /^\*?[^\*]*\*?$/.test(regex)
WildcardFormatOk(regex) ==
    \E lead \in {0, 1}, trail \in {0, 1} :
        /\ lead + trail <= Len(regex)
        /\ lead = 1 => regex[1] = "*"
        /\ trail = 1 => regex[Len(regex)] = "*"
        /\ \A i \in (lead + 1)..(Len(regex) - trail) : regex[i] # "*"

\* what the RegExp atom x matches: "." is any character but a line terminator,
\* a letter is itself (the model's strings hold no other metacharacter)
AtomMatches(x, c) == IF x = "." THEN c \notin {"\n", "\r"} ELSE x = c

\* does the pattern body p (atoms, each optionally followed by "*") match all of s
RECURSIVE Matches(_, _)
Matches(p, s) ==
    IF Len(p) = 0 THEN Len(s) = 0
    ELSE IF Len(p) >= 2 /\ p[2] = "*"
    THEN \/ Matches(SubSeq(p, 3, Len(p)), s)
         \/ /\ Len(s) > 0
            /\ AtomMatches(p[1], s[1])
            /\ Matches(p, Tail(s))
    ELSE /\ Len(s) > 0
         /\ AtomMatches(p[1], s[1])
         /\ Matches(Tail(p), Tail(s))

\* new RegExp(source).test(a) for a source of the form ^body$
RegExpTest(source, a) == Matches(SubSeq(source, 2, Len(source) - 1), a)

\* line 214: the RegExp source built from the IS value
WildcardSource(regex) == <<"^">> \o Join(Split(regex, "*"), <<".", "*">>) \o <<"$">>

\* lines 207-215: mapping["IS"][1], once the value is known to be well formed
isMatch(a, regex) ==
    IF ~Includes(regex, "*") THEN a = regex
    ELSE RegExpTest(WildcardSource(regex), a)

\* lines 207-215: does mapping["IS"][1] throw for this value
isThrows(regex) == Includes(regex, "*") /\ ~WildcardFormatOk(regex)

\* lines 206-218: mapping[comparator][0]
mappingType(comparator) == IF comparator = IS THEN "string" ELSE "number"

\* a faulty mappingTest: LT is "less than or equal"
mappingTestInclusive(comparator, a, b) ==
    IF comparator = IS THEN isMatch(a, b)
    ELSE IF comparator = EQ THEN a = b
    ELSE IF comparator = LT THEN a <= b
    ELSE a > b

\* lines 206-218: mapping[comparator][1]
mappingTest(comparator, a, b) ==
    IF comparator = IS THEN isMatch(a, b)
    ELSE IF comparator = EQ THEN a = b
    ELSE IF comparator = LT THEN a < b
    ELSE a > b

\* lines 195-234
filterCourses(dataset, allCourses, key, value, comparator) ==
    IF key \notin DOMAIN dataset[1]
    THEN Thrown(InsightError("Key in filter content not found in dataset"))
    ELSE IF comparator \in {IS, EQ, LT, GT}
    THEN IF TypeOf(value) # mappingType(comparator)
         THEN Thrown(InsightError("Filter content type not valid"))
         ELSE IF TypeOf(dataset[1][key]) # mappingType(comparator)
         THEN Thrown(InsightError("Filter content type not match"))
         ELSE IF comparator = IS /\ allCourses # {} /\ isThrows(value.v)
         THEN Thrown(InsightError("Invalid regex filter value"))
         ELSE Found(SetUtils_setFilter(allCourses,
                  [course \in allCourses |->
                      mappingTest(comparator, dataset[course + 1][key].v, value.v)]))
    ELSE Thrown(InsightError("Invalid comparator"))

----------------------------------------------------------------------------
(* findCourses: the filter tree.                                           *)

\* /^[^_]+_[^_]+$/.test(key)
KeyFormatOk(key) ==
    \E i \in 2..(Len(key) - 1) :
        /\ key[i] = "_"
        /\ \A j \in (1..Len(key)) \ {i} : key[j] # "_"

\* a faulty findCoursesLogic: AND and OR are interchanged
findCoursesLogicSwapped(comparator, subSets) ==
    IF Len(subSets) = 0
    THEN Thrown(InsightError("AND and OR must have at least one element"))
    ELSE IF comparator = AND THEN Found(SetUtils_union(subSets))
    ELSE IF comparator = OR THEN Found(SetUtils_intersecion(subSets))
    ELSE Thrown(InsightError("Invalid comparator when finding courses"))

\* lines 153-170, once the operands are evaluated
findCoursesLogic(comparator, subSets) ==
    IF Len(subSets) = 0
    THEN Thrown(InsightError("AND and OR must have at least one element"))
    ELSE IF comparator = OR THEN Found(SetUtils_union(subSets))
    ELSE IF comparator = AND THEN Found(SetUtils_intersecion(subSets))
    ELSE Thrown(InsightError("Invalid comparator when finding courses"))

\* lines 141-193; findOperands is the loop of lines 155-161 over the operands
\* of AND / OR, which stops at the first operand that throws
RECURSIVE findCourses(_, _, _)
RECURSIVE findOperands(_, _, _, _)
findOperands(ds, operands, id, subSets) ==
    IF Len(operands) = 0 THEN [ok |-> TRUE, err |-> NoError, sets |-> subSets]
    ELSE LET sub == findCourses(ds, Head(operands), id) IN
         IF ~sub.ok THEN [ok |-> FALSE, err |-> sub.err, sets |-> <<>>]
         ELSE findOperands(ds, Tail(operands), id, Append(subSets, sub.set))

findCourses(ds, filter, id) ==
    LET dataset == getDataset(ds, id)
        allCourses == 0..(Len(dataset) - 1)
        keys == KeysOf(filter)
    IN
    IF Cardinality(keys) = 0
    THEN IF filter.t # "object"
         THEN Thrown(InsightError("WHERE must be an object"))
         ELSE Found(allCourses)
    ELSE IF Cardinality(keys) > 1
    THEN Thrown(InsightError("There cannot be more than one object in filter"))
    ELSE
    LET comparator == CHOOSE k \in keys : TRUE
        filterContent == filter.v[comparator]
    IN
    IF filterContent.t = "array"
    THEN LET subs == findOperands(ds, filterContent.v, id, <<>>)
         IN  IF ~subs.ok
             THEN Thrown(subs.err)
             ELSE findCoursesLogic(comparator, subs.sets)
    ELSE IF comparator = NOT
    THEN LET sub == findCourses(ds, filterContent, id) IN
         IF ~sub.ok THEN sub
         ELSE Found(SetUtils_complementary(sub.set, allCourses))
    ELSE IF Cardinality(KeysOf(filterContent)) # 1
    THEN Thrown(InsightError("Filter content should have one and only one key"))
    ELSE
    LET contentKey == CHOOSE k \in KeysOf(filterContent) : TRUE
        contentValue == filterContent.v[contentKey]
    IN
    IF ~KeyFormatOk(contentKey)
    THEN Thrown(InsightError("Invalid key format in filter content"))
    ELSE IF Split(contentKey, "_")[1] # id
    THEN Thrown(InsightError("Cannot query from two datasets"))
    ELSE filterCourses(dataset, allCourses, Split(contentKey, "_")[2],
                       contentValue, comparator)

----------------------------------------------------------------------------
(* selectColumns, compareResults and rule.                                 *)

\* the elements of a set of indices of 0..n-1 in ascending order: the order in
\* which selectColumns meets the courses of courseSet
Ascending(set, n) == SelectSeq([i \in 1..n |-> i - 1], LAMBDA x : x \in set)

\* a faulty selectColumns: the dataset id of a column is not compared with id
selectColumnsAnyDataset(ds, courseSet, columns, id) ==
    LET badFormat == {i \in 1..Len(columns) : ~KeyFormatOk(columns[i].v)}
        dataset == getDataset(ds, id)
        courses == Ascending(courseSet, Len(dataset))
        missing == {i \in 1..Len(columns) :
                       \E n \in 1..Len(courses) :
                           Split(columns[i].v, "_")[2] \notin DOMAIN dataset[courses[n] + 1]}
    IN
    IF badFormat # {}
    THEN [ok |-> FALSE, rows |-> <<>>,
          err |-> InsightError("Invalid key format in columns")]
    ELSE IF missing # {}
    THEN [ok |-> FALSE, rows |-> <<>>,
          err |-> InsightError("Key in columns not exists in dataset")]
    ELSE [ok |-> TRUE, err |-> NoError,
          rows |-> [n \in 1..Len(courses) |->
                     [c \in {columns[i].v : i \in 1..Len(columns)} |->
                        dataset[courses[n] + 1][Split(c, "_")[2]]]]]

\* lines 236-258
selectColumns(ds, courseSet, columns, id) ==
    LET badFormat == {i \in 1..Len(columns) : ~KeyFormatOk(columns[i].v)}
        otherId == {i \in 1..Len(columns) :
                       KeyFormatOk(columns[i].v) /\ Split(columns[i].v, "_")[1] # id}
        firstBad == CHOOSE i \in badFormat \cup otherId :
                        \A j \in badFormat \cup otherId : i <= j
        dataset == getDataset(ds, id)
        courses == Ascending(courseSet, Len(dataset))
        missing == {i \in 1..Len(columns) :
                       \E n \in 1..Len(courses) :
                           Split(columns[i].v, "_")[2] \notin DOMAIN dataset[courses[n] + 1]}
    IN
    IF badFormat \cup otherId # {}
    THEN IF firstBad \in badFormat
         THEN [ok |-> FALSE, rows |-> <<>>,
               err |-> InsightError("Invalid key format in columns")]
         ELSE [ok |-> FALSE, rows |-> <<>>,
               err |-> InsightError("Cannot query from two datasets")]
    ELSE IF missing # {}
    THEN [ok |-> FALSE, rows |-> <<>>,
          err |-> InsightError("Key in columns not exists in dataset")]
    ELSE [ok |-> TRUE, err |-> NoError,
          rows |-> [n \in 1..Len(courses) |->
                     [c \in {columns[i].v : i \in 1..Len(columns)} |->
                        dataset[courses[n] + 1][Split(c, "_")[2]]]]]

\* String.prototype.charCodeAt for the characters of the model
CharCode(c) ==
    CASE c = "\t" -> 9
      [] c = "\n" -> 10
      [] c = " " -> 32
      [] c = "*" -> 42
      [] c = "." -> 46
      [] c = "_" -> 95
      [] c = "a" -> 97
      [] c = "b" -> 98
      [] c = "c" -> 99
      [] c = "r" -> 114

\* a faulty rule: strings of different lengths are ordered by length alone
ruleLengthFirst(a, b) ==
    IF a.t = "string"
    THEN LET n == IF Len(a.v) < Len(b.v) THEN Len(a.v) ELSE Len(b.v)
             diff == {i \in 1..n : CharCode(a.v[i]) # CharCode(b.v[i])}
             i == CHOOSE i \in diff : \A j \in diff : i <= j
         IN  IF Len(a.v) # Len(b.v)
             THEN (IF Len(a.v) > Len(b.v) THEN 1 ELSE -1)
             ELSE IF diff # {}
             THEN (IF CharCode(a.v[i]) > CharCode(b.v[i]) THEN 1 ELSE -1)
             ELSE 0
    ELSE IF a.v = b.v THEN 0
    ELSE IF a.v > b.v THEN 1 ELSE -1

\* lines 265-282, on the tagged values of two rows
rule(a, b) ==
    IF a.t = "string"
    THEN LET n == IF Len(a.v) < Len(b.v) THEN Len(a.v) ELSE Len(b.v)
             diff == {i \in 1..n : CharCode(a.v[i]) # CharCode(b.v[i])}
             i == CHOOSE i \in diff : \A j \in diff : i <= j
         IN  IF diff # {}
             THEN (IF CharCode(a.v[i]) > CharCode(b.v[i]) THEN 1 ELSE -1)
             ELSE IF Len(a.v) = Len(b.v) THEN 0
             ELSE IF Len(a.v) > Len(b.v) THEN 1 ELSE -1
    ELSE IF a.v = b.v THEN 0
    ELSE IF a.v > b.v THEN 1 ELSE -1

\* lines 260-263
compareResults(a, b, order) == rule(a[order], b[order])

\* Array.prototype.sort with compareResults as its comparator: a row moves in
\* front of another only if it compares less, so rows that compare equal keep
\* their order
sortRows(rows, order) ==
    SortSeq(rows, LAMBDA a, b : compareResults(a, b, order) < 0)

----------------------------------------------------------------------------
(* performQuery.                                                           *)

MaxResults == 5000

\* a faulty resultTooLarge: a result of exactly MaxResults rows is refused too
resultTooLargeInclusive(results) == Len(results) >= MaxResults

\* line 133
resultTooLarge(results) == Len(results) > MaxResults

Failed(e) == [ok |-> FALSE, err |-> e, rows |-> <<>>]

\* a faulty performQueryMissing: a query of a missing dataset resolves with no rows
performQueryMissingResolves == [ok |-> TRUE, err |-> NoError, rows |-> <<>>]

\* lines 107-109: the dataset named by the first column is not in the store
performQueryMissing == Failed(InsightError("Dataset not exists"))

\* line 106 evaluates without a TypeError
FirstColumnReadable(query) ==
    /\ query.v[OPTIONS].t = "object"
    /\ COLUMNS \in DOMAIN query.v[OPTIONS].v
    /\ query.v[OPTIONS].v[COLUMNS].t = "array"
    /\ Len(query.v[OPTIONS].v[COLUMNS].v) > 0
    /\ query.v[OPTIONS].v[COLUMNS].v[1].t = "string"

\* a faulty performQueryOrder: without ORDER the number of keys is not tested
performQueryOrderKeysUntested(options, results) ==
    LET optionKeys == DOMAIN options.v
        sorted == IF ORDER \in optionKeys /\ Cardinality(optionKeys) <= 2
                     /\ options.v[ORDER] \in {options.v[COLUMNS].v[i] :
                                                i \in 1..Len(options.v[COLUMNS].v)}
                  THEN sortRows(results, options.v[ORDER].v)
                  ELSE results
    IN
    IF ORDER \in optionKeys /\ Cardinality(optionKeys) > 2
    THEN Failed(InsightError("Invalid key in column"))
    ELSE IF ORDER \in optionKeys
            /\ options.v[ORDER] \notin {options.v[COLUMNS].v[i] :
                                          i \in 1..Len(options.v[COLUMNS].v)}
    THEN Failed(InsightError("Value of ORDER not exists in COLUMNS"))
    ELSE IF resultTooLarge(sorted)
    THEN Failed(ResultTooLargeError)
    ELSE [ok |-> TRUE, err |-> NoError, rows |-> sorted]

\* lines 120-136, given the projected rows
performQueryOrder(options, results) ==
    LET optionKeys == DOMAIN options.v
        sorted == IF ORDER \in optionKeys /\ Cardinality(optionKeys) <= 2
                     /\ options.v[ORDER] \in {options.v[COLUMNS].v[i] :
                                                i \in 1..Len(options.v[COLUMNS].v)}
                  THEN sortRows(results, options.v[ORDER].v)
                  ELSE results
    IN
    IF ORDER \in optionKeys /\ Cardinality(optionKeys) > 2
    THEN Failed(InsightError("Invalid key in column"))
    ELSE IF ORDER \in optionKeys
            /\ options.v[ORDER] \notin {options.v[COLUMNS].v[i] :
                                          i \in 1..Len(options.v[COLUMNS].v)}
    THEN Failed(InsightError("Value of ORDER not exists in COLUMNS"))
    ELSE IF ORDER \notin optionKeys /\ Cardinality(optionKeys) > 1
    THEN Failed(InsightError("Invalid key in column"))
    ELSE IF resultTooLarge(sorted)
    THEN Failed(ResultTooLargeError)
    ELSE [ok |-> TRUE, err |-> NoError, rows |-> sorted]

\* lines 96-139
performQuery(ds, query) ==
    LET queryKeys == KeysOf(query) IN
    IF Cardinality(queryKeys) # 2 \/ OPTIONS \notin queryKeys \/ WHERE \notin queryKeys
    THEN Failed(InsightError("JSON has more keys than excepted"))
    ELSE IF ~FirstColumnReadable(query)
    THEN Failed(InsightError("Cannot read property of undefined"))
    ELSE
    LET options == query.v[OPTIONS]
        id == Split(options.v[COLUMNS].v[1].v, "_")[1]
    IN
    IF ~containsDataset(ds, id)
    THEN performQueryMissing
    ELSE
    LET courseSet == findCourses(ds, query.v[WHERE], id) IN
    IF ~courseSet.ok
    THEN Failed(InsightError(courseSet.err.message))
    ELSE
    LET results == selectColumns(ds, courseSet.set, options.v[COLUMNS].v, id) IN
    IF ~results.ok
    THEN Failed(results.err)
    ELSE performQueryOrder(options, results.rows)

PerformQuery(query) ==
    \E r \in {performQuery(datasets, query)} :
    /\ last' = Settled("query", <<>>, query, IF r.ok THEN "resolved" ELSE "rejected",
                        r.err, r.rows, datasets)
    /\ UNCHANGED <<datasets, pending, addedKind, addedFrom, sched>>

----------------------------------------------------------------------------
(* The store and its callers.                                              *)

SeqsUpTo(S, n) == UNION {[1..k -> S] : k \in 0..n}

\* the qualified name <id>_<field>
Key(id, field) == id \o <<"_">> \o field

cId == <<"c">>
rId == <<"r">>
xId == <<"x">>

Query(where, columns) ==
    O2(WHERE, where, OPTIONS, O1(COLUMNS, Arr([i \in 1..Len(columns) |-> Str(columns[i])])))

\* the queries performQuery is called with while datasets come and go
Queries ==
    { Query(EmptyObj, <<Key(cId, avg)>>),
      Query(EmptyObj, <<Key(rId, dept), Key(rId, avg)>>),
      Query(EmptyObj, <<Key(xId, avg)>>),
      Query(O1(GT, O1(Key(cId, avg), Num(0))), <<Key(cId, dept)>>),
      O1(OPTIONS, O1(COLUMNS, Arr(<<Str(Key(cId, avg))>>))),
      Obj((WHERE :> EmptyObj) @@ (OPTIONS :> O1(COLUMNS, Arr(<<Str(Key(cId, avg))>>)))
          @@ (ORDER :> Str(Key(cId, avg)))) }

Init ==
    /\ datasets = <<>>
    /\ pending = [c \in Calls |-> 0]
    /\ last = Resolve("none", <<>>, <<>>, <<>>, <<>>)
    /\ addedKind = <<>>
    /\ addedFrom = <<>>
    /\ sched = NotScheduling

Next ==
    \/ \E id \in Ids, kind \in Kinds : AddDatasetCall(id, kind)
    \/ \E id \in Ids, kind \in Kinds, content \in Contents :
            AddDatasetSettle(id, kind, content)
    \/ \E id \in Ids : RemoveDataset(id)
    \/ ListDatasets
    \/ \E query \in Queries : PerformQuery(query)

Spec == Init /\ [][Next]_vars

----------------------------------------------------------------------------
(* The filter evaluator on its own: a stored dataset "c" drawn from        *)
(* FilterData, and findCourses applied to every filter tree of Filters.    *)

FilterRecords == << Rec(<<"a">>, 0), Rec(<<"b">>, 1), Rec(<<"a">>, 2) >>

\* the datasets of 1..MaxRows records of FilterRecords, repetitions included,
\* up to the order of the records
FilterData ==
    UNION {{[i \in 1..n |-> FilterRecords[pick[i]]] :
               pick \in {f \in [1..n -> 1..Len(FilterRecords)] :
                            \A i \in 1..(n - 1) : f[i] <= f[i + 1]}} :
           n \in 1..MaxRows}

\* the leaves of the trees
Atoms == { EmptyObj,
           O1(GT, O1(Key(cId, avg), Num(0))),
           O1(IS, O1(Key(cId, dept), Str(<<"a">>))) }

\* the filter trees with exactly k nodes AND, OR, NOT; AND and OR take one or
\* two operands
Trees[k \in 0..(MaxOps + 1)] ==
    IF k = 0 THEN Atoms
    ELSE {O1(NOT, t) : t \in Trees[k - 1]}
         \cup {O1(op, Arr(<<t>>)) : op \in {AND, OR}, t \in Trees[k - 1]}
         \cup UNION {{O1(op, Arr(<<t1, t2>>)) :
                         op \in {AND, OR}, t1 \in Trees[i], t2 \in Trees[k - 1 - i]} :
                     i \in 0..(k - 1)}

\* single comparisons: every operator on a number field, a string field and a
\* field that is not in the schema, with number and string values
Comparisons ==
    {O1(op, O1(Key(cId, field), value)) :
        op \in {IS, EQ, LT, GT},
        field \in {avg, dept, seats},
        value \in {Num(n) : n \in 0..MaxNum} \cup {Str(<<"a">>), Str(<<"b">>)}}

Filters == UNION {Trees[k] : k \in 0..MaxOps} \cup Comparisons

\* one evaluation of findCourses on the drawn dataset
FindCourses(filter) ==
    LET r == findCourses(datasets, filter, cId) IN
    /\ last.op = "none"
    /\ last' = Settled("find", cId, filter, IF r.ok THEN "resolved" ELSE "rejected",
                        r.err, r.set, datasets)
    /\ UNCHANGED <<datasets, pending, addedKind, addedFrom, sched>>

InitFilter ==
    /\ datasets \in {<<[id |-> cId, data |-> d]>> : d \in FilterData}
    /\ pending = [c \in Calls |-> 0]
    /\ last = Resolve("none", <<>>, <<>>, <<>>, <<>>)
    /\ addedKind = (cId :> Courses)
    /\ addedFrom = <<>>
    /\ sched = NotScheduling

NextFilter ==
    /\ last.op = "none"
    /\ \E filter \in Filters : FindCourses(filter)

SpecFilter == InitFilter /\ [][NextFilter]_vars

----------------------------------------------------------------------------
(* The IS comparison on its own: a one-record dataset whose dept is any    *)
(* string of StrChars, and every IS value over StrChars and "*".           *)

StrChars == {"a", "b", ".", "\n"}

IsData == {<<Rec(s, 0)>> : s \in SeqsUpTo(StrChars, MaxStrLen)}

IsFilters == {O1(IS, O1(Key(cId, dept), Str(p))) :
                 p \in SeqsUpTo(StrChars \cup {"*"}, MaxPatLen)}

InitIS ==
    /\ datasets \in {<<[id |-> cId, data |-> d]>> : d \in IsData}
    /\ pending = [c \in Calls |-> 0]
    /\ last = Resolve("none", <<>>, <<>>, <<>>, <<>>)
    /\ addedKind = (cId :> Courses)
    /\ addedFrom = <<>>
    /\ sched = NotScheduling

NextIS ==
    /\ last.op = "none"
    /\ \E filter \in IsFilters : FindCourses(filter)

SpecIS == InitIS /\ [][NextIS]_vars

----------------------------------------------------------------------------
(* performQuery on its own: a store drawn from QueryStores and every query *)
(* of QueryPool applied to it.                                             *)

\* the records the stored datasets are made of: three different numbers, and
\* three strings of which one is a proper prefix of another
SortRecords == << Rec(<<"b">>, 1), Rec(<<"a">>, 2), Rec(<<"a", "b">>, 0) >>

\* the datasets of 1..MaxSortRows records of SortRecords, in every order and
\* with repetitions
SortData ==
    UNION {{[i \in 1..n |-> SortRecords[pick[i]]] :
               pick \in [1..n -> 1..Len(SortRecords)]} : n \in 1..MaxSortRows}

QueryStores ==
    {<<[id |-> cId, data |-> d]>> : d \in SortData}
    \cup { <<[id |-> rId, data |-> SortRecords], [id |-> cId, data |-> SortRecords]>>,
           <<[id |-> rId, data |-> SortRecords]>>,
           <<>> }

\* the WHERE clauses: filters that select all, some and none of the records,
\* a field of another dataset at depth 1, 2 and 3, and a type error and an
\* unknown field, also in front of a field of another dataset
QueryWheres ==
    { EmptyObj,
      O1(GT, O1(Key(cId, avg), Num(0))),
      O1(GT, O1(Key(cId, avg), Num(MaxNum))),
      O1(GT, O1(Key(rId, avg), Num(0))),
      O1(AND, Arr(<< O1(GT, O1(Key(cId, avg), Num(0))),
                     O1(NOT, O1(IS, O1(Key(rId, dept), Str(<<"a">>)))) >>)),
      O1(NOT, O1(OR, Arr(<< O1(LT, O1(Key(cId, avg), Num(1))),
                            O1(AND, Arr(<< O1(EQ, O1(Key(rId, seats), Num(0))) >>)) >>))),
      O1(OR, Arr(<< O1(GT, O1(Key(cId, seats), Num(0))),
                    O1(GT, O1(Key(rId, avg), Num(0))) >>)),
      O1(GT, O1(Key(cId, dept), Num(0))),
      O1(EQ, O1(Key(cId, seats), Num(0))) }

\* the COLUMNS lists
QueryColumns ==
    { <<Key(cId, avg)>>,
      <<Key(cId, dept), Key(cId, avg)>>,
      <<Key(cId, avg), Key(rId, avg)>>,
      <<Key(cId, avg), Key(rId, seats)>>,
      <<Key(rId, avg), Key(cId, avg)>>,
      <<Key(cId, seats)>>,
      <<Key(cId, avg), Key(cId, seats)>>,
      <<Key(xId, avg)>> }

ColumnsArr(columns) == Arr([i \in 1..Len(columns) |-> Str(columns[i])])

\* a key that OPTIONS and the query are not meant to have
LIMIT == <<"L", "I", "M", "I", "T">>

\* the OPTIONS objects over one COLUMNS list: alone, with ORDER (in COLUMNS or
\* not, depending on the list), and with a further key
QueryOptions(columns) ==
    { O1(COLUMNS, ColumnsArr(columns)),
      O2(COLUMNS, ColumnsArr(columns), ORDER, Str(Key(cId, avg))),
      O2(COLUMNS, ColumnsArr(columns), ORDER, Str(Key(cId, dept))),
      O2(COLUMNS, ColumnsArr(columns), LIMIT, Num(1)),
      Obj((COLUMNS :> ColumnsArr(columns)) @@ (ORDER :> Str(Key(cId, avg)))
          @@ (LIMIT :> Num(1))) }

QueryPool ==
    {O2(WHERE, where, OPTIONS, options) :
        where \in QueryWheres,
        options \in UNION {QueryOptions(columns) : columns \in QueryColumns}}
    \cup {Obj((WHERE :> where) @@ (OPTIONS :> O1(COLUMNS, ColumnsArr(columns)))
              @@ (LIMIT :> Num(1))) :
             where \in QueryWheres, columns \in QueryColumns}

InitQuery ==
    /\ datasets \in QueryStores
    /\ pending = [c \in Calls |-> 0]
    /\ last = Resolve("none", <<>>, <<>>, <<>>, <<>>)
    /\ addedKind = [id \in StoredIds |-> Courses]
    /\ addedFrom = <<>>
    /\ sched = NotScheduling

NextQuery ==
    /\ last.op = "none"
    /\ \E query \in QueryPool : PerformQuery(query)

SpecQuery == InitQuery /\ [][NextQuery]_vars

----------------------------------------------------------------------------
(* performQuery at the result cap: a stored dataset of about MaxResults    *)
(* records and queries that select all of them, all but one or two, or few. *)

\* a dataset of n records: the first has avg 1, the second avg 0, the others 2
CapData(n) ==
    [i \in 1..n |-> Rec(<<"a">>, IF i = 1 THEN 1 ELSE IF i = 2 THEN 0 ELSE 2)]

CapStores ==
    {<<[id |-> cId, data |-> CapData(n)]>> : n \in (MaxResults - 1)..(MaxResults + MaxOver)}

CapWheres ==
    { EmptyObj,
      O1(GT, O1(Key(cId, avg), Num(0))),
      O1(GT, O1(Key(cId, avg), Num(1))),
      O1(LT, O1(Key(cId, avg), Num(2))),
      O1(NOT, O1(EQ, O1(Key(cId, avg), Num(0)))),
      O1(OR, Arr(<< O1(EQ, O1(Key(cId, avg), Num(0))),
                    O1(GT, O1(Key(cId, avg), Num(1))) >>)),
      O1(AND, Arr(<< O1(GT, O1(Key(cId, avg), Num(0))),
                     O1(IS, O1(Key(cId, dept), Str(<<"a">>))) >>)) }

\* OPTIONS with one and two columns, without ORDER and with an ORDER that
\* moves a row (avg) or none (dept)
CapOptions ==
    { O1(COLUMNS, ColumnsArr(<<Key(cId, avg)>>)),
      O1(COLUMNS, ColumnsArr(<<Key(cId, dept), Key(cId, avg)>>)),
      O2(COLUMNS, ColumnsArr(<<Key(cId, dept), Key(cId, avg)>>), ORDER, Str(Key(cId, avg))),
      O2(COLUMNS, ColumnsArr(<<Key(cId, dept)>>), ORDER, Str(Key(cId, dept))) }

CapPool ==
    {O2(WHERE, where, OPTIONS, options) : where \in CapWheres, options \in CapOptions}

InitCap ==
    /\ datasets \in CapStores
    /\ pending = [c \in Calls |-> 0]
    /\ last = Resolve("none", <<>>, <<>>, <<>>, <<>>)
    /\ addedKind = (cId :> Courses)
    /\ addedFrom = <<>>
    /\ sched = NotScheduling

NextCap ==
    /\ last.op = "none"
    /\ \E query \in CapPool : PerformQuery(query)

SpecCap == InitCap /\ [][NextCap]_vars

----------------------------------------------------------------------------
(* Scheduler.schedule.  A section and a room are objects: two entries of   *)
(* a list are the same object when their ref is equal, and the list of     *)
(* rooms may hold the same room more than once.  The set of sections keeps *)
(* insertion order and is a sequence here.  ScoreCalculator and TimeTable  *)
(* are outside the sources: the table is the sequence of its plans and has *)
(* MaxSlots time slots; a score is any number of 0..MaxScore, the same     *)
(* number whenever the table is the same.                                  *)

SchedSection(s) ==
    [ref |-> s, courses_pass |-> (2 * s) % 3, courses_fail |-> s \div 3, courses_audit |-> 0]

SchedRoom(r) == [ref |-> r, rooms_seats |-> r + 1]

null == [ref |-> 0]

secSize(sec) == sec.courses_pass + sec.courses_fail + sec.courses_audit

canFitIn(room, sec) == room.rooms_seats <= secSize(sec)

slotSize(table) == MaxSlots

addPlans(table, plans) == table \o plans

removePlanByRoom(table, room) == SelectSeq(table, LAMBDA p : p.room # room)

toArray(table) == table

\* The calculator during one call of takeBestRoom: calc.table is the table at
\* entry and calc.oldScore its score, calc.scores[i] the score of any other
\* table met while roomChoices[i] is tried.
calcScore(calc, table, i) == IF table = calc.table THEN calc.oldScore ELSE calc.scores[i]

findBestRoomPlans(table, room, secChoices) ==
    LET sorted == SortSeq(secChoices, LAMBDA a, b : secSize(a) < secSize(b))
        fitting == SelectSeq(sorted, LAMBDA sec : ~canFitIn(room, sec))
        count == IF Len(fitting) < slotSize(table) THEN Len(fitting) ELSE slotSize(table)
    IN  [i \in 1..count |-> [room |-> room, section |-> fitting[i], slot |-> i - 1]]

\* The reduce of takeBestRoom over roomChoices[i..]: temp is [room, score], the
\* table is carried along because removePlanByRoom changes it.
RECURSIVE reduceRooms(_, _, _, _, _, _, _)
reduceRooms(table, roomChoices, secChoices, calc, oldScore, i, temp) ==
    IF i > Len(roomChoices) THEN [temp |-> temp, table |-> table]
    ELSE LET room == roomChoices[i]
             tried == addPlans(table, findBestRoomPlans(table, room, secChoices))
             score == calcScore(calc, tried, i)
             after == removePlanByRoom(tried, room)
         IN  reduceRooms(after, roomChoices, secChoices, calc, oldScore, i + 1,
                         IF score - oldScore > 0 /\ score > temp[2]
                             THEN <<room, score>> ELSE temp)

indexOf(arr, x) == CHOOSE i \in 1..Len(arr) : arr[i] = x /\ \A j \in 1..(i - 1) : arr[j] # x

splice(arr, i) == [j \in 1..(Len(arr) - 1) |-> IF j < i THEN arr[j] ELSE arr[j + 1]]

deleteAll(secChoices, secs) ==
    SelectSeq(secChoices, LAMBDA sec : \A k \in 1..Len(secs) : secs[k] # sec)

\* takeBestRoom without the splice: the room taken stays among the choices.
takeBestRoomKeepsRoom(table, roomChoices, secChoices, calc) ==
    LET oldScore == calcScore(calc, table, 0)
        reduced == reduceRooms(table, roomChoices, secChoices, calc, oldScore, 1, <<null, 0>>)
        bestRoom == reduced.temp[1]
        added == addPlans(reduced.table, findBestRoomPlans(reduced.table, bestRoom, secChoices))
        bestSections == [k \in 1..Len(findBestRoomPlans(added, bestRoom, secChoices)) |->
                            findBestRoomPlans(added, bestRoom, secChoices)[k].section]
    IN  IF bestRoom = null
            THEN [taken |-> FALSE, room |-> null, table |-> reduced.table,
                  roomChoices |-> roomChoices, secChoices |-> secChoices]
            ELSE [taken |-> TRUE, room |-> bestRoom, table |-> added,
                  roomChoices |-> roomChoices,
                  secChoices |-> deleteAll(secChoices, bestSections)]

takeBestRoom(table, roomChoices, secChoices, calc) ==
    LET oldScore == calcScore(calc, table, 0)
        reduced == reduceRooms(table, roomChoices, secChoices, calc, oldScore, 1, <<null, 0>>)
        bestRoom == reduced.temp[1]
        added == addPlans(reduced.table, findBestRoomPlans(reduced.table, bestRoom, secChoices))
        bestSections == [k \in 1..Len(findBestRoomPlans(added, bestRoom, secChoices)) |->
                            findBestRoomPlans(added, bestRoom, secChoices)[k].section]
    IN  IF bestRoom = null
            THEN [taken |-> FALSE, room |-> null, table |-> reduced.table,
                  roomChoices |-> roomChoices, secChoices |-> secChoices]
            ELSE [taken |-> TRUE, room |-> bestRoom, table |-> added,
                  roomChoices |-> splice(roomChoices, indexOf(roomChoices, bestRoom)),
                  secChoices |-> deleteAll(secChoices, bestSections)]

\* new Set(sections): the distinct sections in the order of their first entry.
newSet(sections) ==
    SelectSeq([i \in 1..Len(sections) |->
                  IF \E j \in 1..(i - 1) : sections[j] = sections[i] THEN null ELSE sections[i]],
              LAMBDA sec : sec # null)

\* A call of schedule: rooms is the caller's array, changed in place; given,
\* iterations and chosen are history (the rooms passed in, the calls of
\* takeBestRoom made, the rooms it took).
Scheduling(sections, rooms) ==
    [pc |-> "loop", sections |-> sections, given |-> rooms, rooms |-> rooms,
     sectionSet |-> newSet(sections), bestTable |-> <<>>,
     iterations |-> 0, chosen |-> <<>>, result |-> <<>>]

Returned(s) ==
    [s EXCEPT !.pc = "done",
              !.result = [k \in 1..Len(toArray(s.bestTable)) |->
                             <<s.bestTable[k].room, s.bestTable[k].section, s.bestTable[k].slot>>]]

\* One pass of the loop of schedule: the test holds and takeBestRoom runs;
\* when it returns false the loop is left and schedule returns.
ScheduleTakeBestRoom(oldScore, scores) ==
    /\ sched.pc = "loop"
    /\ Len(sched.rooms) > 0 /\ Len(sched.sectionSet) > 0
    /\ \E r \in {takeBestRoom(sched.bestTable, sched.rooms, sched.sectionSet,
                             [table |-> sched.bestTable, oldScore |-> oldScore,
                              scores |-> scores])} :
          sched' = IF ~r.taken
                       THEN Returned([sched EXCEPT !.bestTable = r.table,
                                                   !.iterations = @ + 1])
                       ELSE [sched EXCEPT !.bestTable = r.table,
                                          !.rooms = r.roomChoices,
                                          !.sectionSet = r.secChoices,
                                          !.iterations = @ + 1,
                                          !.chosen = Append(@, r.room)]
    /\ UNCHANGED <<datasets, pending, last, addedKind, addedFrom>>

\* The test of the loop fails: schedule returns the plans of the table.
ScheduleReturn ==
    /\ sched.pc = "loop"
    /\ ~(Len(sched.rooms) > 0 /\ Len(sched.sectionSet) > 0)
    /\ sched' = Returned(sched)
    /\ UNCHANGED <<datasets, pending, last, addedKind, addedFrom>>

RoomLists ==
    UNION {[1..n -> {SchedRoom(r) : r \in 1..MaxRooms}] : n \in 0..MaxRooms}

SectionLists ==
    UNION {[1..n -> {SchedSection(s) : s \in 1..MaxSections}] : n \in 0..MaxSections}

InitSched ==
    /\ datasets = <<>>
    /\ pending = [c \in Calls |-> 0]
    /\ last = Resolve("none", <<>>, <<>>, <<>>, <<>>)
    /\ addedKind = <<>>
    /\ addedFrom = <<>>
    /\ \E sections \in SectionLists, rooms \in RoomLists : sched = Scheduling(sections, rooms)

NextSched ==
    \/ \E oldScore \in 0..MaxScore :
          \E scores \in [1..Len(sched.rooms) -> 0..MaxScore] :
              ScheduleTakeBestRoom(oldScore, scores)
    \/ ScheduleReturn

\* schedule is one synchronous call: it runs until it returns.
SpecSched == InitSched /\ [][NextSched]_vars /\ WF_vars(NextSched)

----------------------------------------------------------------------------
(* The error kinds of the specification, as the rejections of the code.    *)

InvalidIdError(e) ==
    e \in {InsightError("Field id format not valid"), InsightError("Id format not right")}
DuplicateError(e) == e = InsightError("Cannot add with duplicated id")
NotFoundError(e) == e.class = "NotFoundError" \/ e = InsightError("Dataset not exists")
TypeError(e) ==
    e \in {InsightError("Filter content type not valid"),
           InsightError("Filter content type not match")}
PatternError(e) == e = InsightError("Invalid regex filter value")

\* the id rule of the specification: empty after trimming, or with an underscore
Whitespace == {" ", "\t", "\n", "\r"}
Malformed(id) == Includes(id, "_") \/ \A i \in 1..Len(id) : id[i] \in Whitespace

Rejected == last.status = "rejected"
Resolved == last.status = "resolved"

----------------------------------------------------------------------------
(* Claims about the store (under Spec).                                    *)

\* C1: addDataset called with an id that is in the store is rejected with
\* DuplicateError and leaves the store as it was.
C1_DuplicateRejected ==
    (last.op = "addCall" /\ containsDataset(last.before, last.id))
        => (Rejected /\ DuplicateError(last.err) /\ datasets = last.before)

C1_Witness ==
    /\ last.op = "addCall"
    /\ containsDataset(last.before, last.id)
    /\ Rejected
    /\ Len(datasets) = 2

\* C2: addDataset is rejected with InvalidIdError, store unchanged, for every id
\* that is empty, all whitespace or holds an underscore, and for no other id.
C2_InvalidIdRejected ==
    last.op = "addCall"
        => /\ Malformed(last.id)
                => (Rejected /\ InvalidIdError(last.err) /\ datasets = last.before)
           /\ (Rejected /\ InvalidIdError(last.err)) => Malformed(last.id)

\* C3: addDataset with a valid unused id succeeds for either kind: the call is
\* not rejected, and when its archive holds a record it resolves with the ids
\* of the store, which now holds the id.
C3_AddSucceeds ==
    /\ (last.op = "addCall" /\ ~Malformed(last.id)
            /\ ~containsDataset(last.before, last.id))
        => ~Rejected
    /\ (last.op = "addThen" /\ last.arg.loadable /\ Len(ingest(last.arg.files)) > 0
            /\ ~containsDataset(last.before, last.id))
        => /\ Resolved
           /\ last.value = getIds(datasets)
           /\ containsDataset(datasets, last.id)
           /\ last.before = <<>> => last.value = <<last.id>>

\* C4: removeDataset of a stored id resolves with the id and deletes exactly
\* that dataset; the others keep their place and records; and addDataset is
\* rejected as a duplicate only for an id that is in the store, so not after
\* the removal.
C4_RemoveDeletesExactly ==
    /\ (last.op = "remove" /\ containsDataset(last.before, last.id))
        => /\ Resolved
           /\ last.value = last.id
           /\ ~containsDataset(datasets, last.id)
           /\ datasets = SelectSeq(last.before, LAMBDA e : e.id # last.id)
           /\ Len(datasets) = Len(last.before) - 1
    /\ (last.op = "addCall" /\ Rejected /\ DuplicateError(last.err))
        => containsDataset(last.before, last.id)

C4_Witness ==
    /\ last.op = "remove"
    /\ Resolved
    /\ Len(last.before) = 2
    /\ Len(datasets) = 1

\* C5: removeDataset is rejected with InvalidIdError for a malformed id and with
\* NotFoundError for a well-formed id that is not stored; the store is unchanged.
C5_RemoveRejections ==
    last.op = "remove"
        => /\ Malformed(last.id)
                => (Rejected /\ InvalidIdError(last.err) /\ datasets = last.before)
           /\ (~Malformed(last.id) /\ ~containsDataset(last.before, last.id))
                => (Rejected /\ NotFoundError(last.err) /\ datasets = last.before)

\* C6: listDatasets returns one entry per stored dataset, none for an empty
\* store, with numRows the number of its records and kind the kind it was
\* added with.
C6_ListMatchesStore ==
    last.op = "list"
        => /\ Resolved
           /\ Len(last.value) = Cardinality(StoredIds)
           /\ {last.value[i].id : i \in 1..Len(last.value)} = StoredIds
           /\ \A i \in 1..Len(last.value) :
                /\ last.value[i].numRows = Len(getDataset(datasets, last.value[i].id))
                /\ last.value[i].kind = addedKind[last.value[i].id]

C6_Witness ==
    /\ last.op = "list"
    /\ Len(last.value) = 2
    /\ last.value[1].numRows # last.value[2].numRows

\* the dataset id of the first COLUMNS entry of a query
FirstColumnId(query) == Split(query.v[OPTIONS].v[COLUMNS].v[1].v, "_")[1]

\* C7 as stated: a query whose first COLUMNS entry names a dataset that is not
\* in the store fails with NotFoundError and returns no rows.
C7_MissingDatasetNotFound ==
    (last.op = "query" /\ ~containsDataset(last.before, FirstColumnId(last.arg)))
        => (Rejected /\ NotFoundError(last.err) /\ last.value = <<>>)

\* C7, amended: a query with exactly the top-level keys WHERE and OPTIONS whose
\* first COLUMNS entry names a dataset that is not in the store fails with
\* NotFoundError and returns no rows; and a query fails so only then.
C7_MissingDatasetNotFoundShaped ==
    last.op = "query"
        => /\ (KeysOf(last.arg) = {WHERE, OPTIONS}
                /\ ~containsDataset(last.before, FirstColumnId(last.arg)))
                => (Rejected /\ NotFoundError(last.err) /\ last.value = <<>>)
           /\ (Rejected /\ NotFoundError(last.err))
                => ~containsDataset(last.before, FirstColumnId(last.arg))

C7_Witness ==
    /\ last.op = "query"
    /\ Rejected
    /\ NotFoundError(last.err)
    /\ containsDataset(last.before, rId)
    /\ FirstColumnId(last.arg) = cId

----------------------------------------------------------------------------
(* Claims about the filter evaluator (under SpecFilter and SpecIS).        *)

\* the records of the dataset findCourses was applied to
FoundData == getDataset(last.before, cId)
FoundRange == 0..(Len(FoundData) - 1)

\* the one key of a one-key object, and its value
TheKey(j) == CHOOSE k \in DOMAIN j.v : TRUE
TheValue(j) == j.v[TheKey(j)]

\* the field a comparison names, and the value it compares with
ComparedField(filter) == Split(TheKey(TheValue(filter)), "_")[2]
ComparedValue(filter) == TheValue(TheValue(filter))

\* the reference semantics: does one record satisfy a filter tree whose
\* leaves are the empty object, number comparisons and IS without wildcard
RECURSIVE Satisfies(_, _)
Satisfies(record, filter) ==
    IF DOMAIN filter.v = {} THEN TRUE
    ELSE LET op == TheKey(filter)
             operands == TheValue(filter).v
         IN  CASE op = AND -> \A i \in 1..Len(operands) : Satisfies(record, operands[i])
               [] op = OR -> \E i \in 1..Len(operands) : Satisfies(record, operands[i])
               [] op = NOT -> ~Satisfies(record, TheValue(filter))
               [] op = EQ -> record[ComparedField(filter)].v = ComparedValue(filter).v
               [] op = LT -> record[ComparedField(filter)].v < ComparedValue(filter).v
               [] op = GT -> record[ComparedField(filter)].v > ComparedValue(filter).v
               [] op = IS -> record[ComparedField(filter)].v = ComparedValue(filter).v

\* a filter tree of Empty, AND, OR, NOT over the leaves of Atoms
RECURSIVE IsTree(_)
IsTree(filter) ==
    \/ filter \in Atoms
    \/ /\ filter.t = "object"
       /\ Cardinality(DOMAIN filter.v) = 1
       /\ \/ /\ TheKey(filter) \in {AND, OR}
             /\ TheValue(filter).t = "array"
             /\ Len(TheValue(filter).v) > 0
             /\ \A i \in 1..Len(TheValue(filter).v) : IsTree(TheValue(filter).v[i])
          \/ /\ TheKey(filter) = NOT
             /\ IsTree(TheValue(filter))

\* C8: on a filter tree of Empty, AND, OR, NOT and valid comparisons the
\* evaluator returns exactly the indices of the records that satisfy the tree
\* under the reference semantics (Empty: all, AND: all operands, OR: some
\* operand, NOT: not the operand), a subset of 0..n-1.
C8_EvaluatorIsReference ==
    (last.op = "find" /\ IsTree(last.arg))
        => /\ Resolved
           /\ last.value \subseteq FoundRange
           /\ last.value = {i \in FoundRange : Satisfies(FoundData[i + 1], last.arg)}

\* an AND with the empty object as an operand, under a NOT, selecting some
\* records and not others
C8_Witness ==
    /\ last.op = "find"
    /\ Resolved
    /\ DOMAIN last.arg.v # {}
    /\ TheKey(last.arg) = NOT
    /\ DOMAIN TheValue(last.arg).v # {}
    /\ TheKey(TheValue(last.arg)) = AND
    /\ EmptyObj \in {TheValue(TheValue(last.arg)).v[i] :
                        i \in 1..Len(TheValue(TheValue(last.arg)).v)}
    /\ last.value # {}
    /\ last.value # FoundRange

\* the reference semantics of the wildcard
StartsWith(s, p) == Len(p) <= Len(s) /\ SubSeq(s, 1, Len(p)) = p
EndsWith(s, p) == Len(p) <= Len(s) /\ SubSeq(s, Len(s) - Len(p) + 1, Len(s)) = p
Contains(s, p) ==
    \E i \in 0..(Len(s) - Len(p)) : SubSeq(s, i + 1, i + Len(p)) = p

Leading(value) == Len(value) > 0 /\ value[1] = "*"
Trailing(value) == Len(value) > 0 /\ value[Len(value)] = "*"
\* the value without its leading and trailing "*"
Stripped(value) ==
    SubSeq(value, IF Leading(value) THEN 2 ELSE 1,
                  IF Trailing(value) THEN Len(value) - 1 ELSE Len(value))
\* a "*" that is neither the first nor the last character
InnerStar(value) == \E i \in 2..(Len(value) - 1) : value[i] = "*"

WildcardSelects(field, value) ==
    IF ~Includes(value, "*") THEN field = value
    ELSE IF Leading(value) /\ Trailing(value) THEN Contains(field, Stripped(value))
    ELSE IF Leading(value) THEN EndsWith(field, Stripped(value))
    ELSE StartsWith(field, Stripped(value))

\* C9: IS with a string value on a string field selects the records whose
\* field equals the value (no "*"), ends with it (leading "*"), starts with it
\* (trailing "*") or contains it (both); a "*" elsewhere fails with PatternError.
C9_WildcardSemantics ==
    (last.op = "find" /\ TheKey(last.arg) = IS /\ ComparedField(last.arg) = dept
        /\ ComparedValue(last.arg).t = "string")
        => IF InnerStar(ComparedValue(last.arg).v)
           THEN Rejected /\ PatternError(last.err)
           ELSE /\ Resolved
                /\ last.value = {i \in FoundRange :
                      WildcardSelects(FoundData[i + 1][dept].v, ComparedValue(last.arg).v)}

\* C10: EQ, LT and GT fail with TypeError when the value or the field is not
\* a number, IS when the value or the field is not a string; otherwise EQ, LT
\* and GT select the indices whose field is equal to, less than, greater than
\* the value.
C10_ComparisonSemantics ==
    (last.op = "find" /\ last.arg \in Comparisons
        /\ ComparedField(last.arg) \in DOMAIN FoundData[1])
        => LET op == TheKey(last.arg)
               field == ComparedField(last.arg)
               value == ComparedValue(last.arg)
               wanted == IF op = IS THEN "string" ELSE "number"
           IN  IF value.t # wanted \/ \E i \in FoundRange : FoundData[i + 1][field].t # wanted
               THEN Rejected /\ TypeError(last.err)
               ELSE /\ Resolved
                    /\ op = EQ => last.value =
                         {i \in FoundRange : FoundData[i + 1][field].v = value.v}
                    /\ op = LT => last.value =
                         {i \in FoundRange : FoundData[i + 1][field].v < value.v}
                    /\ op = GT => last.value =
                         {i \in FoundRange : FoundData[i + 1][field].v > value.v}

C10_Witness ==
    /\ last.op = "find"
    /\ last.arg \in Comparisons
    /\ TheKey(last.arg) = LT
    /\ Resolved
    /\ last.value # {}
    /\ last.value # FoundRange

C10_WitnessTypeError ==
    /\ last.op = "find"
    /\ last.arg \in Comparisons
    /\ TheKey(last.arg) = GT
    /\ ComparedField(last.arg) = dept
    /\ Rejected
    /\ TypeError(last.err)

----------------------------------------------------------------------------
(* Claims about performQuery (under SpecQuery).                            *)

CrossDatasetError(e) == e = InsightError("Cannot query from two datasets")
UnknownFieldError(e) ==
    e \in {InsightError("Key in columns not exists in dataset"),
           InsightError("Key in filter content not found in dataset")}
ShapeError(e) ==
    e \in {InsightError("JSON has more keys than excepted"),
           InsightError("Cannot read property of undefined"),
           InsightError("Invalid key in column"),
           InsightError("Value of ORDER not exists in COLUMNS"),
           InsightError("WHERE must be an object"),
           InsightError("There cannot be more than one object in filter"),
           InsightError("Filter content should have one and only one key"),
           InsightError("AND and OR must have at least one element"),
           InsightError("Invalid comparator when finding courses"),
           InsightError("Invalid comparator"),
           InsightError("Invalid key format in filter content"),
           InsightError("Invalid key format in columns")}

\* the parts of the query that was performed
QueryWhere == last.arg.v[WHERE]
QueryOpts == last.arg.v[OPTIONS]
ColumnSeq == [i \in 1..Len(QueryOpts.v[COLUMNS].v) |-> QueryOpts.v[COLUMNS].v[i].v]
ColumnNames == {ColumnSeq[i] : i \in 1..Len(ColumnSeq)}
TargetId == FirstColumnId(last.arg)

\* the qualified names of the comparisons of a filter tree, at any depth
RECURSIVE FilterKeys(_)
FilterKeys(filter) ==
    IF filter.t # "object" \/ DOMAIN filter.v = {} THEN {}
    ELSE UNION {LET sub == filter.v[op] IN
                    IF op \in {AND, OR} /\ sub.t = "array"
                    THEN UNION {FilterKeys(sub.v[i]) : i \in 1..Len(sub.v)}
                    ELSE IF op = NOT THEN FilterKeys(sub)
                    ELSE IF sub.t = "object" THEN DOMAIN sub.v
                    ELSE {} : op \in DOMAIN filter.v}

\* the dataset-id segment of a qualified name
IdOf(name) == Split(name, "_")[1]
FieldOf(name) == Split(name, "_")[2]

\* the qualified names of the query whose dataset is not that of the first column
CrossNames ==
    {name \in ColumnNames \cup FilterKeys(QueryWhere) :
        KeyFormatOk(name) /\ IdOf(name) # TargetId}

\* a filter tree that breaks no rule but, possibly, that of the single dataset:
\* well formed, and every comparison has a value of the operator's type and,
\* when it names a field of the dataset id, a field of the schema of that type
\* and a well-placed wildcard
RECURSIVE ValidFilter(_, _, _)
ValidFilter(filter, id, record) ==
    /\ filter.t = "object"
    /\ Cardinality(DOMAIN filter.v) <= 1
    /\ \A op \in DOMAIN filter.v :
        LET sub == filter.v[op]
            wanted == IF op = IS THEN "string" ELSE "number"
        IN  IF op \in {AND, OR}
            THEN /\ sub.t = "array"
                 /\ Len(sub.v) > 0
                 /\ \A i \in 1..Len(sub.v) : ValidFilter(sub.v[i], id, record)
            ELSE IF op = NOT THEN ValidFilter(sub, id, record)
            ELSE /\ op \in {IS, EQ, LT, GT}
                 /\ sub.t = "object"
                 /\ Cardinality(DOMAIN sub.v) = 1
                 /\ \A name \in DOMAIN sub.v :
                        /\ KeyFormatOk(name)
                        /\ sub.v[name].t = wanted
                        /\ IdOf(name) = id
                            => /\ FieldOf(name) \in DOMAIN record
                               /\ record[FieldOf(name)].t = wanted
                               /\ op = IS => ~InnerStar(sub.v[name].v)

\* the performed query breaks no rule but, possibly, that of the single dataset
OtherwiseValid ==
    /\ KeysOf(last.arg) = {WHERE, OPTIONS}
    /\ containsDataset(last.before, TargetId)
    /\ ValidFilter(QueryWhere, TargetId, getDataset(last.before, TargetId)[1])
    /\ \A name \in ColumnNames :
        /\ KeyFormatOk(name)
        /\ IdOf(name) = TargetId
            => FieldOf(name) \in DOMAIN getDataset(last.before, TargetId)[1]
    /\ DOMAIN QueryOpts.v \subseteq {COLUMNS, ORDER}
    /\ ORDER \in DOMAIN QueryOpts.v => QueryOpts.v[ORDER].v \in ColumnNames

\* C11 as stated: a query with a qualified name, in COLUMNS or anywhere in
\* WHERE, of another dataset than the first column's fails with
\* CrossDatasetError and returns no rows.
C11_CrossDatasetRejected ==
    (last.op = "query" /\ CrossNames # {})
        => (Rejected /\ CrossDatasetError(last.err) /\ last.value = <<>>)

\* C11, amended: such a query is rejected and returns no rows; the rejection is
\* CrossDatasetError when the query breaks no other rule; and no query without
\* such a name fails with CrossDatasetError.
C11_CrossDatasetRejectedFirst ==
    last.op = "query"
        => /\ CrossNames # {} => (Rejected /\ last.value = <<>>)
           /\ (CrossNames # {} /\ OtherwiseValid) => CrossDatasetError(last.err)
           /\ (Rejected /\ CrossDatasetError(last.err)) => CrossNames # {}

\* the name of another dataset is three levels down the WHERE tree, the
\* columns are all of the stored dataset
C11_Witness ==
    /\ last.op = "query"
    /\ OtherwiseValid
    /\ Rejected
    /\ CrossDatasetError(last.err)
    /\ \A name \in ColumnNames : IdOf(name) = TargetId
    /\ Key(rId, seats) \in FilterKeys(QueryWhere)

\* the name of another dataset is a column, and that dataset is stored too
C11_WitnessColumn ==
    /\ last.op = "query"
    /\ OtherwiseValid
    /\ Rejected
    /\ CrossDatasetError(last.err)
    /\ FilterKeys(QueryWhere) = {}
    /\ containsDataset(last.before, rId)
    /\ Key(rId, avg) \in ColumnNames

\* the first record of the queried dataset: the schema
Schema == getDataset(last.before, TargetId)[1]

\* the well-formed COLUMNS entries whose local field name is not in the schema
UnknownColumns ==
    {name \in ColumnNames : KeyFormatOk(name) /\ FieldOf(name) \notin DOMAIN Schema}

\* C12: a query with a COLUMNS entry whose local field name is not in the
\* schema of the dataset fails with UnknownFieldError and never resolves with
\* a row list, whatever the filter selects. Stated for the queries that reach
\* the projection: exactly the keys WHERE and OPTIONS, the dataset stored, a
\* valid filter, no name of another dataset.
C12_UnknownColumnRejected ==
    (last.op = "query"
        /\ KeysOf(last.arg) = {WHERE, OPTIONS}
        /\ containsDataset(last.before, TargetId)
        /\ ValidFilter(QueryWhere, TargetId, Schema)
        /\ CrossNames = {}
        /\ UnknownColumns # {})
        => (Rejected /\ UnknownFieldError(last.err) /\ last.value = <<>>)

\* the rejections of the OPTIONS key check of lines 121-130
OptionsError(e) ==
    e \in {InsightError("Invalid key in column"),
           InsightError("Value of ORDER not exists in COLUMNS")}

\* OPTIONS has ORDER with a value that is not a COLUMNS entry, or a key other
\* than COLUMNS and ORDER
BadOptions ==
    \/ /\ ORDER \in DOMAIN QueryOpts.v
       /\ QueryOpts.v[ORDER] \notin
            {QueryOpts.v[COLUMNS].v[i] : i \in 1..Len(QueryOpts.v[COLUMNS].v)}
    \/ ~(DOMAIN QueryOpts.v \subseteq {COLUMNS, ORDER})

\* the query passes the steps that come before the OPTIONS key check: the
\* top-level keys, the dataset lookup, the filter and the projection
ReachesOptions ==
    /\ KeysOf(last.arg) = {WHERE, OPTIONS}
    /\ containsDataset(last.before, TargetId)
    /\ ValidFilter(QueryWhere, TargetId, Schema)
    /\ CrossNames = {}
    /\ \A name \in ColumnNames : KeyFormatOk(name)
    /\ UnknownColumns = {}

\* C13 as stated: a query whose OPTIONS has ORDER with a value outside COLUMNS,
\* or a key other than COLUMNS and ORDER, fails with ShapeError and returns no
\* rows; a query whose OPTIONS is COLUMNS alone or COLUMNS with an ORDER taken
\* from COLUMNS is not rejected by this check.
C13_OptionsShape ==
    last.op = "query"
        => /\ BadOptions => (Rejected /\ ShapeError(last.err) /\ last.value = <<>>)
           /\ ~BadOptions => ~(Rejected /\ OptionsError(last.err))

\* C13, amended: such a query is rejected and returns no rows; the rejection is
\* the ShapeError of the OPTIONS check when the steps before it succeed; and a
\* query whose OPTIONS is COLUMNS alone or COLUMNS with an ORDER taken from
\* COLUMNS is not rejected by this check.
C13_OptionsShapeInOrder ==
    last.op = "query"
        => /\ BadOptions => (Rejected /\ last.value = <<>>)
           /\ (BadOptions /\ ReachesOptions)
                => (ShapeError(last.err) /\ OptionsError(last.err))
           /\ ~BadOptions => ~(Rejected /\ OptionsError(last.err))

\* ORDER names a field of the dataset that is not among the columns, and the
\* filter selects records
C13_Witness ==
    /\ last.op = "query"
    /\ ReachesOptions
    /\ DOMAIN QueryOpts.v = {COLUMNS, ORDER}
    /\ QueryOpts.v[ORDER].v = Key(cId, dept)
    /\ ColumnSeq = <<Key(cId, avg)>>
    /\ findCourses(last.before, QueryWhere, TargetId).set # {}
    /\ Rejected
    /\ last.err = InsightError("Value of ORDER not exists in COLUMNS")

\* a further key beside COLUMNS, without ORDER
C13_WitnessKey ==
    /\ last.op = "query"
    /\ ReachesOptions
    /\ DOMAIN QueryOpts.v = {COLUMNS, LIMIT}
    /\ Rejected
    /\ last.err = InsightError("Invalid key in column")

\* the rows the projection gives for the performed query
Projected ==
    selectColumns(last.before, findCourses(last.before, QueryWhere, TargetId).set,
                  QueryOpts.v[COLUMNS].v, TargetId).rows

\* how often a row occurs in a row list
Occurrences(rows, row) == Cardinality({i \in 1..Len(rows) : rows[i] = row})

\* the same rows with the same multiplicities
SameRows(rows1, rows2) ==
    /\ Len(rows1) = Len(rows2)
    /\ \A i \in 1..Len(rows1) :
        Occurrences(rows1, rows1[i]) = Occurrences(rows2, rows1[i])

\* the order of the strings: by character code from the left, a proper prefix
\* before the longer string
RECURSIVE LexLeq(_, _)
LexLeq(s, t) ==
    IF Len(s) = 0 THEN TRUE
    ELSE IF Len(t) = 0 THEN FALSE
    ELSE IF s[1] = t[1] THEN LexLeq(Tail(s), Tail(t))
    ELSE CharCode(s[1]) < CharCode(t[1])

\* the order of the values of the ORDER column
ValueLeq(a, b) == IF a.t = "number" THEN a.v <= b.v ELSE LexLeq(a.v, b.v)

\* C14: with ORDER the rows returned are the projected rows, each as often as
\* projected, in non-decreasing order of the ORDER column (numbers by magnitude,
\* strings by character code with a proper prefix first); without ORDER they
\* are the projected rows as projected.
C14_SortedPermutation ==
    (last.op = "query" /\ Resolved)
        => IF ORDER \in DOMAIN QueryOpts.v
           THEN /\ SameRows(last.value, Projected)
                /\ \A i, j \in 1..Len(last.value) :
                     i < j => ValueLeq(last.value[i][QueryOpts.v[ORDER].v],
                                       last.value[j][QueryOpts.v[ORDER].v])
           ELSE last.value = Projected

\* the strings "b", "a", "ab" (in this or another order that is not sorted)
\* come back as "a", "ab", "b"
C14_Witness ==
    /\ last.op = "query"
    /\ Resolved
    /\ ORDER \in DOMAIN QueryOpts.v
    /\ QueryOpts.v[ORDER].v = Key(cId, dept)
    /\ Len(last.value) = 3
    /\ [i \in 1..3 |-> last.value[i][Key(cId, dept)].v] = << <<"a">>, <<"a", "b">>, <<"b">> >>
    /\ last.value # Projected

\* three rows with a repeated number come back in non-decreasing order
C14_WitnessNumbers ==
    /\ last.op = "query"
    /\ Resolved
    /\ ORDER \in DOMAIN QueryOpts.v
    /\ QueryOpts.v[ORDER].v = Key(cId, avg)
    /\ Len(last.value) = 3
    /\ [i \in 1..3 |-> Projected[i][Key(cId, avg)].v] = <<2, 0, 2>>
    /\ [i \in 1..3 |-> last.value[i][Key(cId, avg)].v] = <<0, 2, 2>>

----------------------------------------------------------------------------
(* Claims about the result cap (under SpecCap).                            *)

TooLarge(e) == e.class = "ResultTooLargeError"

\* the indices of the records that satisfy the filter of the performed query
Selected ==
    {i \in 0..(Len(getDataset(last.before, TargetId)) - 1) :
        Satisfies(getDataset(last.before, TargetId)[i + 1], QueryWhere)}

\* the row of one record: its value under each column
RowOf(record) == [c \in ColumnNames |-> record[FieldOf(c)]]

\* the rows of the records at the given indices, in that order
RowsOf(data, indices) == [k \in 1..Len(indices) |-> RowOf(data[indices[k] + 1])]

\* the performed query breaks no rule
ValidQuery == ReachesOptions /\ ~BadOptions

\* C15: a valid query fails with ResultTooLargeError exactly when more than
\* 5000 records are selected; otherwise it resolves with one row per selected
\* record, so with all 5000 rows when exactly 5000 are selected.
C15_CapExact ==
    (last.op = "query" /\ ValidQuery)
        => \A data \in {getDataset(last.before, TargetId)} :
           \A selected \in {Selected} :
           IF Cardinality(selected) > 5000
           THEN Rejected /\ TooLarge(last.err) /\ last.value = <<>>
           ELSE /\ Resolved
                /\ Len(last.value) = Cardinality(selected)
                /\ {last.value[k] : k \in 1..Len(last.value)}
                     = {RowOf(data[i + 1]) : i \in selected}
                /\ ORDER \notin DOMAIN QueryOpts.v
                     => last.value = RowsOf(data, Ascending(selected, Len(data)))

\* exactly 5000 of 5001 records are selected, sorted, and returned
C15_Witness ==
    /\ last.op = "query"
    /\ ValidQuery
    /\ Len(getDataset(last.before, TargetId)) = 5001
    /\ Cardinality(Selected) = 5000
    /\ ORDER \in DOMAIN QueryOpts.v
    /\ Resolved
    /\ Len(last.value) = 5000

\* 5001 of 5002 records are selected and the query fails
C15_WitnessOver ==
    /\ last.op = "query"
    /\ ValidQuery
    /\ Len(getDataset(last.before, TargetId)) = 5002
    /\ Cardinality(Selected) = 5001
    /\ Rejected
    /\ TooLarge(last.err)

----------------------------------------------------------------------------
(* Claims about overlapping addDataset calls (under Spec).                 *)

\* the rejection of the store's add, as addDataset passes it on (line 54)
StoreDuplicateError(e) == e = InsightError("Dataset already exists")

\* no two entries of the store have the same id
UniqueIds == \A i, j \in 1..Len(datasets) : datasets[i].id = datasets[j].id => i = j

\* the chain of an addDataset ran when its id had been installed since the
\* call was made, that is, by a call that overlapped it
SettledOnStored == last.op = "addThen" /\ containsDataset(last.before, last.id)

\* the archive of the settled call holds a record that converts
ArchiveValid == last.arg.loadable /\ Len(ingest(last.arg.files)) > 0

\* C16 as stated: no two datasets share an id; of two overlapping addDataset
\* calls with the same id the one that settles second is rejected with
\* DuplicateError and does not replace the installed records.
C16_OverlapRejectedDuplicate ==
    /\ UniqueIds
    /\ SettledOnStored
        => (Rejected /\ StoreDuplicateError(last.err) /\ datasets = last.before)

\* C16, amended: no two datasets share an id; of two overlapping addDataset
\* calls with the same id the one that settles second is rejected and does
\* not replace the installed records; it is rejected with DuplicateError when
\* its archive holds a valid record, and with the ingestion error otherwise.
C16_OverlapRejected ==
    /\ UniqueIds
    /\ SettledOnStored
        => /\ Rejected
           /\ datasets = last.before
           /\ ArchiveValid => StoreDuplicateError(last.err)
           /\ ~ArchiveValid => ~StoreDuplicateError(last.err)
    /\ (last.op = "addThen" /\ Rejected /\ StoreDuplicateError(last.err))
        => containsDataset(last.before, last.id)

\* the second of two overlapping calls brings other records than the first
\* installed, and is rejected as a duplicate
C16_Witness ==
    /\ SettledOnStored
    /\ ArchiveValid
    /\ Rejected
    /\ StoreDuplicateError(last.err)
    /\ getDataset(datasets, last.id) # ingest(last.arg.files)
    /\ pending[<<last.id, Courses>>] = 0

----------------------------------------------------------------------------
(* Claims about the installation of a dataset (under Spec).                *)

\* every stored dataset is the whole record sequence that the ingestion of
\* the archive of its addDataset call produced
WholeDatasets ==
    \A i \in 1..Len(datasets) :
        /\ datasets[i].id \in DOMAIN addedFrom
        /\ addedFrom[datasets[i].id].loadable
        /\ datasets[i].data = ingest(addedFrom[datasets[i].id].files)
        /\ Len(datasets[i].data) > 0

\* C17: in every reachable state, whatever calls are in flight and whatever
\* ran in between, each stored dataset is the complete record sequence its
\* ingestion produced; an addDataset call does not touch the store before its
\* chain settles, and one that is rejected (wrong kind, corrupted archive, no
\* valid record) leaves the store as it was.
C17_AtomicInstall ==
    /\ WholeDatasets
    /\ last.op = "addCall" => datasets = last.before
    /\ (last.op = "addThen" /\ Rejected) => datasets = last.before
    /\ (last.op = "addThen" /\ Resolved)
        => datasets = Append(last.before,
                             [id |-> last.id, data |-> ingest(last.arg.files)])

\* a query runs on one stored dataset while the addDataset of another id is
\* in flight, and that id is not in the store
C17_Witness ==
    /\ last.op = "query"
    /\ Resolved
    /\ pending[<<cId, Courses>>] > 0
    /\ StoredIds = {rId}
    /\ Len(getDataset(datasets, rId)) = 3

\* an archive whose only course file does not convert is rejected while
\* another dataset is stored
C17_WitnessRejected ==
    /\ last.op = "addThen"
    /\ last.arg = InvalidZip
    /\ Rejected
    /\ Len(datasets) = 1
    /\ datasets = last.before

----------------------------------------------------------------------------
(* Claims about Scheduler.schedule (under SpecSched).                      *)

Times(arr, x) == Cardinality({i \in 1..Len(arr) : arr[i] = x})

ScheduleDone == sched.pc = "done"

\* A pass of the loop stops it and leaves the room choices alone, or takes one
\* entry out of the room choices and records the room as chosen.
StopsOrTakesOneRoom ==
    sched.pc = "loop" /\ sched' # sched =>
        \/ sched'.pc = "done" /\ sched'.rooms = sched.rooms /\ sched'.chosen = sched.chosen
        \/ /\ sched'.pc = "loop"
           /\ \E i \in 1..Len(sched.rooms) :
                 /\ sched'.rooms = splice(sched.rooms, i)
                 /\ sched'.chosen = Append(sched.chosen, sched.rooms[i])

IterationsBounded == sched.iterations <= Len(sched.given)

ChosenOnce == \A i, j \in 1..Len(sched.chosen) : sched.chosen[i] = sched.chosen[j] => i = j

ChosenAsOftenAsGiven ==
    \A i \in 1..Len(sched.chosen) :
        Times(sched.chosen, sched.chosen[i]) <= Times(sched.given, sched.chosen[i])

PlacedSectionsRemoved ==
    \A k \in 1..Len(sched.bestTable) : Times(sched.sectionSet, sched.bestTable[k].section) = 0

NoSectionPlacedTwice ==
    \A k, l \in 1..Len(sched.bestTable) :
        sched.bestTable[k].section = sched.bestTable[l].section => k = l

\* C18 as stated: schedule terminates for every list of sections and rooms; a
\* pass of its loop stops the loop or removes exactly one room from the room
\* choices; a room is chosen at most once; there are at most as many passes as
\* rooms were given; the sections placed are removed from the section choices
\* and no section is placed twice.
C18_ScheduleTerminates ==
    /\ <>ScheduleDone
    /\ [][StopsOrTakesOneRoom]_vars
    /\ [](IterationsBounded /\ ChosenOnce /\ PlacedSectionsRemoved /\ NoSectionPlacedTwice)

\* C18, amended: the same, but a room is chosen at most as often as the list of
\* rooms holds it, which is at most once when the list holds every room once.
C18_ScheduleTerminatesEntries ==
    /\ <>ScheduleDone
    /\ [][StopsOrTakesOneRoom]_vars
    /\ [](/\ IterationsBounded
          /\ ChosenAsOftenAsGiven
          /\ (\A r \in 1..Len(sched.given) : Times(sched.given, sched.given[r]) = 1) => ChosenOnce
          /\ PlacedSectionsRemoved
          /\ NoSectionPlacedTwice)

\* schedule has returned after two passes that took two different rooms, each
\* with a section placed in it.
C18_Witness ==
    /\ ScheduleDone
    /\ sched.iterations = 2
    /\ Len(sched.chosen) = 2 /\ sched.chosen[1] # sched.chosen[2]
    /\ Len(sched.rooms) = 0 /\ Len(sched.sectionSet) = 0
    /\ \A i \in 1..2 : \E k \in 1..Len(sched.result) : sched.result[k][1] = sched.chosen[i]

\* schedule has returned after it took the same room twice.
C18_WitnessSameRoom ==
    /\ ScheduleDone
    /\ Len(sched.chosen) = 2 /\ sched.chosen[1] = sched.chosen[2]
    /\ Len(sched.result) > 0

====
